---------------------------- MODULE Spec2Model ----------------------------
(***************************************************************************)
(* Model of the image-analysis pipeline of src/model.py:                   *)
(* detect_municipal_issue -> MunicipalIssueDetector.analyze_image ->       *)
(* _validate_and_enhance_result / _create_fallback_response.               *)
(*                                                                         *)
(* A text (Python str) is a sequence of one-character strings, so that     *)
(* strip, startswith, endswith, slicing, lower and the substring test "in" *)
(* are computed character by character; the grave accent, which a string  *)
(* of this language cannot hold, is the character Backtick.  A Python      *)
(* value is a record [t, s, items, d]: t is the type tag, s the characters *)
(* of a str (or of the literal of a number or bool), items the elements of *)
(* a list and d the mapping of a dict, a function from its keys.           *)
(***************************************************************************)
EXTENDS Integers, Sequences, FiniteSets, TLC

(***************************************************************************)
(* Bounds of the model.                                                    *)
(***************************************************************************)
\* largest value of the wall clock read by datetime.now()
MaxClock == 2
\* largest number of whitespace characters put around a generated reply
MaxPad == 1

(***************************************************************************)
(* Python values.                                                          *)
(***************************************************************************)
\* the grave accent character
Backtick == "<grave>"

NoDict == [k \in {} |-> 0]

JStr(s) == [t |-> "str", s |-> s, items |-> <<>>, d |-> NoDict]

JNum(s) == [t |-> "num", s |-> s, items |-> <<>>, d |-> NoDict]

JBool(s) == [t |-> "bool", s |-> s, items |-> <<>>, d |-> NoDict]

JNull == [t |-> "null", s |-> <<>>, items |-> <<>>, d |-> NoDict]

JList(items) == [t |-> "list", s |-> <<>>, items |-> items, d |-> NoDict]

JDict(d) == [t |-> "dict", s |-> <<>>, items |-> <<>>, d |-> d]

\* d[k] = v on a dict
Put(d, k, v) == [x \in (DOMAIN d) \cup {k} |-> IF x = k THEN v ELSE d[x]]

(***************************************************************************)
(* Python str methods, on sequences of characters.                         *)
(***************************************************************************)
RECURSIVE Join(_)
\* the str made of the characters of t
Join(t) == IF t = <<>> THEN "" ELSE Head(t) \o Join(Tail(t))

\* the characters str.strip() removes that the replies of the model contain
IsSpace(c) == c \in {" ", "\n", "\t", "\r"}

RECURSIVE LStrip(_)
LStrip(t) == IF t # <<>> /\ IsSpace(Head(t)) THEN LStrip(Tail(t)) ELSE t

RECURSIVE RStrip(_)
RStrip(t) ==
    IF t # <<>> /\ IsSpace(t[Len(t)]) THEN RStrip(SubSeq(t, 1, Len(t) - 1)) ELSE t

\* str.strip()
Strip(t) == RStrip(LStrip(t))

\* t[i:i+len(p)] == p
MatchAt(t, i, p) ==
    /\ i >= 1
    /\ i + Len(p) - 1 <= Len(t)
    /\ \A k \in 1..Len(p) : t[i + k - 1] = p[k]

\* str.startswith
StartsWith(t, p) == MatchAt(t, 1, p)

\* str.endswith
EndsWith(t, p) == MatchAt(t, Len(t) - Len(p) + 1, p)

\* p in t
Contains(t, p) == \E i \in 1..(Len(t) - Len(p) + 1) : MatchAt(t, i, p)

UpperChars ==
    <<"A", "B", "C", "D", "E", "F", "G", "H", "I", "J", "K", "L", "M",
      "N", "O", "P", "Q", "R", "S", "T", "U", "V", "W", "X", "Y", "Z">>

LowerChars ==
    <<"a", "b", "c", "d", "e", "f", "g", "h", "i", "j", "k", "l", "m",
      "n", "o", "p", "q", "r", "s", "t", "u", "v", "w", "x", "y", "z">>

LowerChar(c) ==
    IF \E i \in 1..26 : UpperChars[i] = c
    THEN LowerChars[CHOOSE i \in 1..26 : UpperChars[i] = c]
    ELSE c

\* str.lower()
Lower(t) == [i \in 1..Len(t) |-> LowerChar(t[i])]

(***************************************************************************)
(* json.loads, on texts that contain no backslash and no non-ASCII         *)
(* character: whitespace, objects, arrays, strings (a control character    *)
(* inside a string is an error), numbers, true / false / null and the      *)
(* NaN / Infinity / -Infinity literals Python accepts.  A parse step       *)
(* returns [ok, val, next]: next is the index after the value.             *)
(***************************************************************************)
ParseFail == [ok |-> FALSE, val |-> JNull, next |-> 0]

ParseOk(v, n) == [ok |-> TRUE, val |-> v, next |-> n]

IsJsonSpace(c) == c \in {" ", "\n", "\t", "\r"}

Digits == {"0", "1", "2", "3", "4", "5", "6", "7", "8", "9"}

RECURSIVE SkipWs(_, _)
SkipWs(t, i) == IF i <= Len(t) /\ IsJsonSpace(t[i]) THEN SkipWs(t, i + 1) ELSE i

RECURSIVE SkipDigits(_, _)
SkipDigits(t, i) == IF i <= Len(t) /\ t[i] \in Digits THEN SkipDigits(t, i + 1) ELSE i

RECURSIVE ScanString(_, _)
\* t[i] is the first character after the opening quote
ScanString(t, i) ==
    IF i > Len(t) THEN ParseFail
    ELSE IF t[i] = "\"" THEN ParseOk(JStr(<<>>), i + 1)
    ELSE IF t[i] \in {"\n", "\t", "\r", "\\"} THEN ParseFail
    ELSE LET rest == ScanString(t, i + 1)
         IN  IF rest.ok THEN ParseOk(JStr(<<t[i]>> \o rest.val.s), rest.next) ELSE ParseFail

\* -?(0|[1-9][0-9]*)(\.[0-9]+)?([eE][-+]?[0-9]+)?
ScanNumber(t, i) ==
    LET i0 == IF i <= Len(t) /\ t[i] = "-" THEN i + 1 ELSE i
        i1 == IF i0 <= Len(t) /\ t[i0] = "0" THEN i0 + 1 ELSE SkipDigits(t, i0)
        f1 == IF i1 + 1 <= Len(t) /\ t[i1] = "." /\ t[i1 + 1] \in Digits
              THEN SkipDigits(t, i1 + 1) ELSE i1
        e0 == IF f1 <= Len(t) /\ t[f1] \in {"e", "E"}
              THEN IF f1 + 1 <= Len(t) /\ t[f1 + 1] \in {"-", "+"} THEN f1 + 2 ELSE f1 + 1
              ELSE f1
        e1 == IF e0 > f1 /\ e0 <= Len(t) /\ t[e0] \in Digits THEN SkipDigits(t, e0) ELSE f1
    IN  IF i1 = i0 THEN ParseFail
        ELSE ParseOk(JNum(SubSeq(t, i, e1 - 1)), e1)

RECURSIVE ParseValue(_, _)
RECURSIVE ParseMembers(_, _, _)
RECURSIVE ParseElements(_, _, _)

\* t[i] is the opening quote of the next key of an object whose pairs so far are d
ParseMembers(t, i, d) ==
    IF ~(i <= Len(t) /\ t[i] = "\"") THEN ParseFail
    ELSE LET key == ScanString(t, i + 1)
         IN  IF ~key.ok THEN ParseFail
             ELSE LET c == SkipWs(t, key.next)
                  IN  IF ~(c <= Len(t) /\ t[c] = ":") THEN ParseFail
                      ELSE LET v == ParseValue(t, SkipWs(t, c + 1))
                           IN  IF ~v.ok THEN ParseFail
                               ELSE LET e  == SkipWs(t, v.next)
                                        d2 == Put(d, Join(key.val.s), v.val)
                                    IN  IF e > Len(t) THEN ParseFail
                                        ELSE IF t[e] = "}" THEN ParseOk(JDict(d2), e + 1)
                                        ELSE IF t[e] = "," THEN ParseMembers(t, SkipWs(t, e + 1), d2)
                                        ELSE ParseFail

\* t[i] starts the next element of an array whose elements so far are items
ParseElements(t, i, items) ==
    LET v == ParseValue(t, i)
    IN  IF ~v.ok THEN ParseFail
        ELSE LET e   == SkipWs(t, v.next)
                 it2 == Append(items, v.val)
             IN  IF e > Len(t) THEN ParseFail
                 ELSE IF t[e] = "]" THEN ParseOk(JList(it2), e + 1)
                 ELSE IF t[e] = "," THEN ParseElements(t, SkipWs(t, e + 1), it2)
                 ELSE ParseFail

ParseValue(t, i) ==
    IF i > Len(t) THEN ParseFail
    ELSE IF t[i] = "\"" THEN ScanString(t, i + 1)
    ELSE IF t[i] = "{" THEN
        LET j == SkipWs(t, i + 1)
        IN  IF j <= Len(t) /\ t[j] = "}" THEN ParseOk(JDict(NoDict), j + 1)
            ELSE ParseMembers(t, j, NoDict)
    ELSE IF t[i] = "[" THEN
        LET j == SkipWs(t, i + 1)
        IN  IF j <= Len(t) /\ t[j] = "]" THEN ParseOk(JList(<<>>), j + 1)
            ELSE ParseElements(t, j, <<>>)
    ELSE IF MatchAt(t, i, <<"n", "u", "l", "l">>) THEN ParseOk(JNull, i + 4)
    ELSE IF MatchAt(t, i, <<"t", "r", "u", "e">>) THEN ParseOk(JBool(<<"T", "r", "u", "e">>), i + 4)
    ELSE IF MatchAt(t, i, <<"f", "a", "l", "s", "e">>) THEN ParseOk(JBool(<<"F", "a", "l", "s", "e">>), i + 5)
    ELSE IF MatchAt(t, i, <<"N", "a", "N">>) THEN ParseOk(JNum(<<"n", "a", "n">>), i + 3)
    ELSE IF MatchAt(t, i, <<"I", "n", "f", "i", "n", "i", "t", "y">>) THEN ParseOk(JNum(<<"i", "n", "f">>), i + 8)
    ELSE IF MatchAt(t, i, <<"-", "I", "n", "f", "i", "n", "i", "t", "y">>) THEN ParseOk(JNum(<<"-", "i", "n", "f">>), i + 9)
    ELSE ScanNumber(t, i)

\* json.loads(t): ok = FALSE stands for json.JSONDecodeError
JsonLoads(t) ==
    LET v == ParseValue(t, SkipWs(t, 1))
    IN  IF v.ok /\ SkipWs(t, v.next) = Len(t) + 1 THEN v ELSE ParseFail

(***************************************************************************)
(* Texts of the program.                                                   *)
(***************************************************************************)
\* the sentinel the prompt asks for (src/model.py:154, 203)
NON_CIVIC_ISSUE ==
    <<"N", "O", "N", "_", "C", "I", "V", "I", "C", "_", "I", "S", "S", "U",
      "E">>

\* the opening marker of a fenced JSON block (src/model.py:208)
JSON_FENCE == <<Backtick, Backtick, Backtick, "j", "s", "o", "n">>

\* the closing marker of a fenced block (src/model.py:210)
FENCE == <<Backtick, Backtick, Backtick>>

\* the message returned when no municipal issue is found (src/model.py:205, 226)
NO_ISSUE_MESSAGE ==
    <<"N", "o", " ", "M", "u", "n", "i", "c", "i", "p", "a", "l", " ", "I",
      "s", "s", "u", "e", " ", "D", "e", "t", "e", "c", "t", "e", "d", " ",
      "-", " ", "T", "h", "i", "s", " ", "a", "p", "p", "e", "a", "r", "s",
      " ", "t", "o", " ", "b", "e", " ", "a", " ", "n", "o", "n", "-", "c",
      "i", "v", "i", "c", " ", "m", "a", "t", "t", "e", "r", ".", " ", "P",
      "l", "e", "a", "s", "e", " ", "u", "p", "l", "o", "a", "d", " ", "i",
      "m", "a", "g", "e", "s", " ", "o", "f", " ", "i", "n", "f", "r", "a",
      "s", "t", "r", "u", "c", "t", "u", "r", "e", " ", "p", "r", "o", "b",
      "l", "e", "m", "s", ",", " ", "p", "u", "b", "l", "i", "c", " ", "s",
      "a", "f", "e", "t", "y", " ", "c", "o", "n", "c", "e", "r", "n", "s",
      ",", " ", "o", "r", " ", "m", "u", "n", "i", "c", "i", "p", "a", "l",
      " ", "s", "e", "r", "v", "i", "c", "e", " ", "i", "s", "s", "u", "e",
      "s", ".">>

ANALYZE_ERROR_PREFIX ==
    <<"E", "r", "r", "o", "r", ":", " ", "U", "n", "a", "b", "l", "e", " ",
      "t", "o", " ", "a", "n", "a", "l", "y", "z", "e", " ", "i", "m", "a",
      "g", "e", " ", "-", " ">>

KEY_ERROR_MESSAGE ==
    <<"E", "r", "r", "o", "r", ":", " ", "G", "o", "o", "g", "l", "e", " ",
      "G", "e", "m", "i", "n", "i", " ", "A", "P", "I", " ", "k", "e", "y",
      " ", "n", "o", "t", " ", "f", "o", "u", "n", "d", ".">>

FAILED_MESSAGE ==
    <<"F", "a", "i", "l", "e", "d", " ", "t", "o", " ", "a", "n", "a", "l",
      "y", "z", "e", " ", "t", "h", "e", " ", "i", "m", "a", "g", "e", ".",
      " ", "P", "l", "e", "a", "s", "e", " ", "c", "h", "e", "c", "k", " ",
      "t", "h", "e", " ", "U", "R", "L", " ", "o", "r", " ", "s", "e", "r",
      "v", "e", "r", " ", "l", "o", "g", "s", ".">>

SOURCE_ERROR ==
    <<"i", "m", "a", "g", "e", "_", "s", "o", "u", "r", "c", "e", " ", "m",
      "u", "s", "t", " ", "b", "e", " ", "a", " ", "f", "i", "l", "e", " ",
      "p", "a", "t", "h", ",", " ", "U", "R", "L", ",", " ", "o", "r", " ",
      "P", "I", "L", " ", "I", "m", "a", "g", "e">>

HTTP_PREFIX == <<"h", "t", "t", "p", ":", "/", "/">>

HTTPS_PREFIX == <<"h", "t", "t", "p", "s", ":", "/", "/">>

RGB == <<"R", "G", "B">>

\* strings of _validate_and_enhance_result and _create_fallback_response
UNKNOWN == <<"U", "N", "K", "N", "O", "W", "N">>

BUILDING == <<"B", "U", "I", "L", "D", "I", "N", "G">>

MEDIUM == <<"M", "E", "D", "I", "U", "M">>

PENDING == <<"P", "E", "N", "D", "I", "N", "G">>

NOT_SPECIFIED ==
    <<"N", "o", "t", " ", "s", "p", "e", "c", "i", "f", "i", "e", "d">>

MANUAL_REVIEW ==
    <<"M", "a", "n", "u", "a", "l", " ", "r", "e", "v", "i", "e", "w", " ",
      "r", "e", "q", "u", "i", "r", "e", "d">>

UNKNOWN_CONCERN == <<"U", "n", "k", "n", "o", "w", "n">>

FALLBACK_NOTE ==
    <<"F", "a", "l", "l", "b", "a", "c", "k", " ", "r", "e", "s", "p", "o",
      "n", "s", "e", " ", "-", " ", "m", "a", "n", "u", "a", "l", " ", "r",
      "e", "v", "i", "e", "w", " ", "r", "e", "c", "o", "m", "m", "e", "n",
      "d", "e", "d">>

ELLIPSIS == <<".", ".", ".">>

HALF == <<"0", ".", "5">>

\* the other keys of self.departments (src/model.py:32-89)
FIRE == <<"F", "I", "R", "E">>

WATER == <<"W", "A", "T", "E", "R">>

ELECTRIC == <<"E", "L", "E", "C", "T", "R", "I", "C">>

ROADS == <<"R", "O", "A", "D", "S">>

WASTE == <<"W", "A", "S", "T", "E">>

PARKS == <<"P", "A", "R", "K", "S">>

HEALTH == <<"H", "E", "A", "L", "T", "H">>

TRANSPORT == <<"T", "R", "A", "N", "S", "P", "O", "R", "T">>

TRAFFIC == <<"T", "R", "A", "F", "F", "I", "C">>

EDUCATION == <<"E", "D", "U", "C", "A", "T", "I", "O", "N">>

CIVIC_INFRASTRUCTURE ==
    <<"C", "I", "V", "I", "C", " ", "I", "N", "F", "R", "A", "S", "T", "R",
      "U", "C", "T", "U", "R", "E">>

COMMUNICATION ==
    <<"C", "O", "M", "M", "U", "N", "I", "C", "A", "T", "I", "O", "N">>

DISASTER_RELIEF ==
    <<"D", "I", "S", "A", "S", "T", "E", "R", " ", "R", "E", "L", "I", "E",
      "F">>

\* the other keys of self.priority_levels (src/model.py:93-98)
CRITICAL == <<"C", "R", "I", "T", "I", "C", "A", "L">>

HIGH == <<"H", "I", "G", "H">>

LOW == <<"L", "O", "W">>

\* the keys of a report
K_department == <<"d", "e", "p", "a", "r", "t", "m", "e", "n", "t">>

K_priority == <<"p", "r", "i", "o", "r", "i", "t", "y">>

K_description == <<"d", "e", "s", "c", "r", "i", "p", "t", "i", "o", "n">>

K_location_details ==
    <<"l", "o", "c", "a", "t", "i", "o", "n", "_", "d", "e", "t", "a", "i",
      "l", "s">>

K_recommended_action ==
    <<"r", "e", "c", "o", "m", "m", "e", "n", "d", "e", "d", "_", "a", "c",
      "t", "i", "o", "n">>

K_safety_concern ==
    <<"s", "a", "f", "e", "t", "y", "_", "c", "o", "n", "c", "e", "r", "n">>

K_confidence_score ==
    <<"c", "o", "n", "f", "i", "d", "e", "n", "c", "e", "_", "s", "c", "o",
      "r", "e">>

K_timestamp == <<"t", "i", "m", "e", "s", "t", "a", "m", "p">>

K_status == <<"s", "t", "a", "t", "u", "s">>

\* the phrases of src/model.py:225
NO_MUNICIPAL == <<"n", "o", " ", "m", "u", "n", "i", "c", "i", "p", "a", "l">>

NO_CIVIC == <<"n", "o", " ", "c", "i", "v", "i", "c">>

NOT_A_MUNICIPAL ==
    <<"n", "o", "t", " ", "a", " ", "m", "u", "n", "i", "c", "i", "p", "a",
      "l">>

PERSONAL_ITEM ==
    <<"p", "e", "r", "s", "o", "n", "a", "l", " ", "i", "t", "e", "m">>

NON_CIVIC == <<"n", "o", "n", "-", "c", "i", "v", "i", "c">>

\* datetime.isoformat() of the first instant of the clock, less its last digit
ISO_PREFIX ==
    <<"2", "0", "2", "6", "-", "0", "1", "-", "0", "1", "T", "0", "0", ":",
      "0", "0", ":", "0">>

\* str(e) of the exceptions the interpreter raises
NAME_ERROR_DATETIME ==
    <<"n", "a", "m", "e", " ", "'", "d", "a", "t", "e", "t", "i", "m", "e",
      "'", " ", "i", "s", " ", "n", "o", "t", " ", "d", "e", "f", "i", "n",
      "e", "d">>

NOT_ITERABLE_PREFIX ==
    <<"a", "r", "g", "u", "m", "e", "n", "t", " ", "o", "f", " ", "t", "y",
      "p", "e", " ", "'">>

NOT_ITERABLE_SUFFIX ==
    <<"'", " ", "i", "s", " ", "n", "o", "t", " ", "i", "t", "e", "r", "a",
      "b", "l", "e">>

LIST_INDEX_ERROR ==
    <<"l", "i", "s", "t", " ", "i", "n", "d", "i", "c", "e", "s", " ", "m",
      "u", "s", "t", " ", "b", "e", " ", "i", "n", "t", "e", "g", "e", "r",
      "s", " ", "o", "r", " ", "s", "l", "i", "c", "e", "s", ",", " ", "n",
      "o", "t", " ", "s", "t", "r">>

STR_ASSIGN_ERROR ==
    <<"'", "s", "t", "r", "'", " ", "o", "b", "j", "e", "c", "t", " ", "d",
      "o", "e", "s", " ", "n", "o", "t", " ", "s", "u", "p", "p", "o", "r",
      "t", " ", "i", "t", "e", "m", " ", "a", "s", "s", "i", "g", "n", "m",
      "e", "n", "t">>

STR_INDEX_ERROR ==
    <<"s", "t", "r", "i", "n", "g", " ", "i", "n", "d", "i", "c", "e", "s",
      " ", "m", "u", "s", "t", " ", "b", "e", " ", "i", "n", "t", "e", "g",
      "e", "r", "s", ",", " ", "n", "o", "t", " ", "'", "s", "t", "r", "'">>

T_int == <<"i", "n", "t">>

T_float == <<"f", "l", "o", "a", "t">>

T_bool == <<"b", "o", "o", "l">>

T_NoneType == <<"N", "o", "n", "e", "T", "y", "p", "e">>

\* str(e) of the exceptions the collaborators raise, named by their class
CONNECTION_ERROR ==
    <<"C", "o", "n", "n", "e", "c", "t", "i", "o", "n", "E", "r", "r", "o",
      "r">>

HTTP_ERROR == <<"H", "T", "T", "P", "E", "r", "r", "o", "r">>

UNIDENTIFIED_IMAGE ==
    <<"U", "n", "i", "d", "e", "n", "t", "i", "f", "i", "e", "d", "I", "m",
      "a", "g", "e", "E", "r", "r", "o", "r">>

FILE_NOT_FOUND ==
    <<"F", "i", "l", "e", "N", "o", "t", "F", "o", "u", "n", "d", "E", "r",
      "r", "o", "r">>

OS_ERROR == <<"O", "S", "E", "r", "r", "o", "r">>

MODEL_ERROR ==
    <<"G", "o", "o", "g", "l", "e", "A", "P", "I", "E", "r", "r", "o", "r">>

BLOCKED_ERROR == <<"V", "a", "l", "u", "e", "E", "r", "r", "o", "r">>

CONFIGURE_ERROR ==
    <<"D", "e", "f", "a", "u", "l", "t", "C", "r", "e", "d", "e", "n", "t",
      "i", "a", "l", "s", "E", "r", "r", "o", "r">>


(***************************************************************************)
(* Outcomes of a call: a returned value or a raised exception, whose       *)
(* str(e) is exc.                                                          *)
(***************************************************************************)
Return(v) == [raised |-> FALSE, exc |-> <<>>, val |-> v]

Raise(e) == [raised |-> TRUE, exc |-> e, val |-> JNull]

\* the names bound at module scope of src/model.py
ModuleGlobals ==
    {"genai", "json", "base64", "Image", "io", "os", "load_dotenv", "Path",
     "requests", "Dict", "Any", "Union", "logging", "logger", "env_path",
     "MunicipalIssueDetector", "detect_municipal_issue"}

\* list(self.departments.keys())
valid_departments ==
    {FIRE, WATER, ELECTRIC, ROADS, WASTE, PARKS, BUILDING, HEALTH, TRANSPORT,
     TRAFFIC, EDUCATION, CIVIC_INFRASTRUCTURE, COMMUNICATION, DISASTER_RELIEF}

\* list(self.priority_levels.keys())
valid_priorities == {CRITICAL, HIGH, MEDIUM, LOW}

\* datetime.now().isoformat() when the clock reads n
IsoFormat(n) == ISO_PREFIX \o <<ToString(n)>>

\* type(v).__name__ of a parsed number, bool or null
TypeName(v) ==
    IF v.t = "null" THEN T_NoneType
    ELSE IF v.t = "bool" THEN T_bool
    ELSE IF \E i \in 1..Len(v.s) : v.s[i] \in {".", "e", "E", "n"} THEN T_float
    ELSE T_int

\* required_fields extended by the optional keys of a report
required_fields_with_details ==
    <<K_department, K_priority, K_description, K_location_details,
      K_recommended_action, K_confidence_score>>

required_fields == <<K_department, K_priority, K_description>>

RECURSIVE EnsureFields(_, _)
\* for field in required_fields: if field not in result: result[field] = 'UNKNOWN'
\* (from the i-th field on)
EnsureFields(d, i) ==
    IF i > Len(required_fields) THEN d
    ELSE LET field == Join(required_fields[i])
         IN  EnsureFields(IF field \notin DOMAIN d THEN Put(d, field, JStr(UNKNOWN)) ELSE d,
                          i + 1)

\* a department check that accepts every value
ValidateDepartmentAny(d) == d

\* if result['department'] not in valid_departments: result['department'] = 'BUILDING'
ValidateDepartment(d) ==
    IF d["department"] \notin {JStr(k) : k \in valid_departments}
    THEN Put(d, "department", JStr(BUILDING))
    ELSE d

\* if result['priority'] not in valid_priorities: result['priority'] = 'MEDIUM'
ValidatePriority(d) ==
    IF d["priority"] \notin {JStr(k) : k \in valid_priorities}
    THEN Put(d, "priority", JStr(MEDIUM))
    ELSE d

\* result['timestamp'] = datetime.now().isoformat()
AddTimestamp(d, now) == Put(d, "timestamp", JStr(IsoFormat(now)))

\* a status that is set only when the model supplied none
AddStatusIfAbsent(d) == IF "status" \in DOMAIN d THEN d ELSE Put(d, "status", JStr(PENDING))

\* result['status'] = 'PENDING'
AddStatus(d) == Put(d, "status", JStr(PENDING))

\* _validate_and_enhance_result(result) when the clock reads now
ValidateAndEnhance(result, now) ==
    IF result.t = "dict" THEN
        Return(JDict(AddStatus(AddTimestamp(
            ValidatePriority(ValidateDepartment(EnsureFields(result.d, 1))), now))))
    ELSE IF result.t = "list" THEN
        \* result[field] = 'UNKNOWN', or result['department'] when the list
        \* holds the three field names
        Raise(LIST_INDEX_ERROR)
    ELSE IF result.t = "str" THEN
        IF \E i \in 1..Len(required_fields) : ~Contains(result.s, required_fields[i])
        THEN Raise(STR_ASSIGN_ERROR)
        ELSE Raise(STR_INDEX_ERROR)
    ELSE
        \* field not in result, on an int, float, bool or None
        Raise(NOT_ITERABLE_PREFIX \o TypeName(result) \o NOT_ITERABLE_SUFFIX)

\* raw_response[:200] + '...' if len(raw_response) > 200 else raw_response
Truncated(raw_response) ==
    IF Len(raw_response) > 200
    THEN SubSeq(raw_response, 1, 200) \o ELLIPSIS
    ELSE raw_response

\* _create_fallback_response(raw_response) when the clock reads now: the
\* function reads the global name datetime
CreateFallbackResponse(raw_response, now) ==
    IF "datetime" \notin ModuleGlobals THEN Raise(NAME_ERROR_DATETIME)
    ELSE Return(JDict([department |-> JStr(BUILDING),
                       priority |-> JStr(MEDIUM),
                       description |-> JStr(Truncated(raw_response)),
                       location_details |-> JStr(NOT_SPECIFIED),
                       recommended_action |-> JStr(MANUAL_REVIEW),
                       safety_concern |-> JStr(UNKNOWN_CONCERN),
                       confidence_score |-> JNum(HALF),
                       timestamp |-> JStr(IsoFormat(now)),
                       status |-> JStr(PENDING),
                       note |-> JStr(FALLBACK_NOTE)]))

\* a sentinel check that accepts the bare sentinel only
IsNonCivicExact(response_text) == response_text = NON_CIVIC_ISSUE

\* if response_text == "NON_CIVIC_ISSUE" or "NON_CIVIC_ISSUE" in response_text
IsNonCivic(response_text) ==
    response_text = NON_CIVIC_ISSUE \/ Contains(response_text, NON_CIVIC_ISSUE)

\* a leading strip that removes the three grave accents only
StripLeadingFenceShort(response_text) ==
    IF StartsWith(response_text, JSON_FENCE)
    THEN SubSeq(response_text, 3 + 1, Len(response_text))
    ELSE response_text

\* if response_text.startswith('```json'): response_text = response_text[7:]
StripLeadingFence(response_text) ==
    IF StartsWith(response_text, JSON_FENCE)
    THEN SubSeq(response_text, 7 + 1, Len(response_text))
    ELSE response_text

\* if response_text.endswith('```'): response_text = response_text[:-3]
StripTrailingFence(response_text) ==
    IF EndsWith(response_text, FENCE)
    THEN SubSeq(response_text, 1, Len(response_text) - 3)
    ELSE response_text

\* the text handed to json.loads
FenceStripped(text) == StripTrailingFence(StripLeadingFence(Strip(text)))

negative_keywords == {NO_MUNICIPAL, NO_CIVIC, NOT_A_MUNICIPAL, PERSONAL_ITEM, NON_CIVIC}

\* any(keyword in response.text.lower() for keyword in [...])
HasNegativeKeyword(text) == \E keyword \in negative_keywords : Contains(Lower(text), keyword)

\* a handler that looks for the phrases in the reply as written
OnDecodeErrorCaseSensitive(text, now) ==
    IF \E keyword \in negative_keywords : Contains(text, keyword)
    THEN Return(JStr(NO_ISSUE_MESSAGE))
    ELSE CreateFallbackResponse(text, now)

\* the handler of json.JSONDecodeError
OnDecodeError(text, now) ==
    IF HasNegativeKeyword(text) THEN Return(JStr(NO_ISSUE_MESSAGE))
    ELSE CreateFallbackResponse(text, now)

\* the inner try statement of analyze_image on the reply response.text
ParseResponse(text, now) ==
    IF IsNonCivic(Strip(text)) THEN Return(JStr(NO_ISSUE_MESSAGE))
    ELSE LET loaded == JsonLoads(FenceStripped(text))
         IN  IF loaded.ok THEN ValidateAndEnhance(loaded.val, now)
             ELSE OnDecodeError(text, now)

\* an analyze_image that lets the exception through
AnalyzeTryPropagate(outcome) == outcome

\* except Exception as e, of analyze_image
AnalyzeTry(outcome) ==
    IF outcome.raised THEN Return(JStr(ANALYZE_ERROR_PREFIX \o outcome.exc)) ELSE outcome

\* except Exception as e, of detect_municipal_issue
DetectTry(outcome) ==
    IF outcome.raised
    THEN Return(JDict([error |-> JStr(outcome.exc), message |-> JStr(FAILED_MESSAGE)]))
    ELSE outcome

\* a key check that tests for None only
FalsyNoneOnly(v) == v.t = "null"

\* not API_KEY
Falsy(v) == v.t = "null" \/ (v.t = "str" /\ v.s = <<>>)

(***************************************************************************)
(* Inputs: replies of the model service, API keys, image sources.          *)
(***************************************************************************)
\* texts of the replies of the model service
BOGUS == <<"B", "O", "G", "U", "S">>

SUPERHIGH == <<"S", "U", "P", "E", "R", "H", "I", "G", "H">>

RESOLVED == <<"R", "E", "S", "O", "L", "V", "E", "D">>

NULL_LITERAL == <<"n", "u", "l", "l">>

MAIN_STREET == <<"M", "a", "i", "n", " ", "S", "t">>

CORDON == <<"C", "o", "r", "d", "o", "n", " ", "o", "f", "f">>

OLD_STAMP == <<"2", "0", "2", "0">>

PREAMBLE ==
    <<"s", "o", "m", "e", " ", "p", "r", "e", "a", "m", "b", "l", "e", " ">>

TRAILING == <<" ", "t", "r", "a", "i", "l", "i", "n", "g">>

PERSONAL_TEXT ==
    <<"I", " ", "c", "a", "n", "n", "o", "t", " ", "i", "d", "e", "n", "t",
      "i", "f", "y", " ", "a", "n", "y", " ", "m", "u", "n", "i", "c", "i",
      "p", "a", "l", " ", "i", "s", "s", "u", "e", ",", " ", "t", "h", "i",
      "s", " ", "l", "o", "o", "k", "s", " ", "l", "i", "k", "e", " ", "a",
      " ", "p", "e", "r", "s", "o", "n", "a", "l", " ", "i", "t", "e", "m">>

CAPITAL_TEXT ==
    <<"T", "h", "e", "r", "e", " ", "i", "s", " ", "N", "o", " ", "C", "i",
      "v", "i", "c", " ", "p", "r", "o", "b", "l", "e", "m", " ", "h", "e",
      "r", "e">>

GARBLED ==
    <<"g", "a", "r", "b", "l", "e", "d", " ", "n", "o", "n", "s", "e", "n",
      "s", "e">>


\* "chars"
Quote(chars) == <<"\"">> \o chars \o <<"\"">>

\* "key":value
Member(key, value) == Quote(key) \o <<":">> \o value

RECURSIVE JoinComma(_)
JoinComma(members) ==
    IF members = <<>> THEN <<>>
    ELSE IF Len(members) = 1 THEN members[1]
    ELSE members[1] \o <<",">> \o JoinComma(Tail(members))

\* the JSON object with the given members; an empty member is left out
Object(members) ==
    <<"{">> \o JoinComma(SelectSeq(members, LAMBDA m : m # <<>>)) \o <<"}">>

RECURSIVE Repeat(_, _)
Repeat(t, n) == IF n = 0 THEN <<>> ELSE t \o Repeat(t, n - 1)

DepartmentMembers ==
    {<<>>, Member(K_department, Quote(FIRE)),
     Member(K_department, Quote(CIVIC_INFRASTRUCTURE)),
     Member(K_department, Quote(BOGUS)), Member(K_department, <<"7">>)}

PriorityMembers ==
    {<<>>, Member(K_priority, Quote(CRITICAL)), Member(K_priority, Quote(SUPERHIGH)),
     Member(K_priority, NULL_LITERAL)}

DescriptionMembers == {<<>>, Member(K_description, Quote(<<"x">>))}

LifecycleMembers ==
    <<Member(K_timestamp, Quote(OLD_STAMP)), Member(K_status, Quote(RESOLVED))>>

DetailMembers ==
    <<Member(K_location_details, Quote(MAIN_STREET)),
      Member(K_recommended_action, Quote(CORDON)),
      Member(K_confidence_score, <<"0", ".", "9">>),
      Member(K_safety_concern, Quote(<<"Y", "e", "s">>))>>

OtherMembers == {<<>>, LifecycleMembers, DetailMembers, LifecycleMembers \o DetailMembers}

\* replies that are a JSON object
ObjectBodies ==
    {Object(<<dm, pm, sm>> \o om) :
        dm \in DepartmentMembers, pm \in PriorityMembers,
        sm \in DescriptionMembers, om \in OtherMembers}

\* replies that are JSON but no object
ValueBodies ==
    {<<"[", "1", ",", " ", "2", "]">>, <<"[", "]">>, <<"4", "2">>, <<"0", ".", "5">>,
     NULL_LITERAL, <<"t", "r", "u", "e">>, Quote(GARBLED),
     Quote(K_department \o K_priority \o K_description),
     <<"[">> \o JoinComma(<<Quote(K_department), Quote(K_priority), Quote(K_description)>>) \o <<"]">>}

\* replies that name the sentinel
SentinelBodies ==
    {NON_CIVIC_ISSUE, PREAMBLE \o NON_CIVIC_ISSUE \o TRAILING,
     Object(<<Member(K_department, Quote(FIRE)), Member(K_description, Quote(NON_CIVIC_ISSUE))>>)}

\* replies that are no JSON
BrokenBodies ==
    {GARBLED, Repeat(GARBLED, 13), <<>>, PERSONAL_TEXT, CAPITAL_TEXT,
     Lower(NON_CIVIC_ISSUE), Lower(PREAMBLE) \o NON_CIVIC \o TRAILING,
     <<"{">> \o Member(K_department, Quote(FIRE)),
     <<"{">> \o Member(K_department, Quote(FIRE)) \o <<",", "}">>,
     <<"{">> \o Member(K_description, Quote(NO_CIVIC)),
     JSON_FENCE, <<"j", "s", "o", "n">>, <<Backtick>>}

\* a JSON object whose description holds a negative phrase
PhraseBodies == {Object(<<Member(K_description, Quote(PERSONAL_ITEM))>>)}

Bodies == ObjectBodies \cup ValueBodies \cup SentinelBodies \cup BrokenBodies \cup PhraseBodies

\* the body inside a fenced JSON block
Fenced(body) == JSON_FENCE \o <<"\n">> \o body \o <<"\n">> \o FENCE

\* the ways a reply presents a body
Presentations(body) ==
    {body, Fenced(body), JSON_FENCE \o body, body \o FENCE, FENCE \o body \o FENCE}

\* n whitespace characters before and after the text
Pad(n, text) == Repeat(<<" ">>, n) \o text \o Repeat(<<"\n">>, n)

\* the replies response.text ranges over
Replies == {Pad(n, p) : n \in 0..MaxPad, p \in UNION {Presentations(b) : b \in Bodies}}

\* the values of GOOGLE_GEMINI_API_KEY: unset, empty, set
ApiKeys == {JNull, JStr(<<>>), JStr(<<"k">>)}

\* a PIL image of the given mode
PilImage(mode) == [t |-> "image", s |-> mode, items |-> <<>>, d |-> NoDict]

\* the image sources handed to detect_municipal_issue
ImageSources ==
    {JStr(HTTP_PREFIX \o <<"a">>), JStr(HTTPS_PREFIX \o <<"a">>), JStr(<<"a", ".", "p", "n", "g">>),
     PilImage(RGB), PilImage(<<"L">>), JNum(<<"7">>)}

(***************************************************************************)
(* State of one call of detect_municipal_issue.                            *)
(***************************************************************************)
VARIABLES
    pc,            \* the position of the call
    now,           \* the wall clock
    API_KEY,       \* os.getenv("GOOGLE_GEMINI_API_KEY")
    image_source,  \* the argument of the call
    image,         \* the loaded image, JNull before
    reply,         \* response.text
    response_text, \* the text handed to json.loads
    parsed,        \* the outcome of json.loads
    stamp,         \* the clock value read while the reply was handled
    outcome,       \* what the call hands to its caller
    detector,      \* whether MunicipalIssueDetector was constructed
    fetches,       \* requests.get calls issued
    invocations    \* generate_content calls issued

vars ==
    <<pc, now, API_KEY, image_source, image, reply, response_text, parsed,
      stamp, outcome, detector, fetches, invocations>>

NoOutcome == Return(JNull)

Init ==
    /\ pc = "idle"
    /\ now = 0
    /\ API_KEY = JNull
    /\ image_source = JNull
    /\ image = JNull
    /\ reply = <<>>
    /\ response_text = <<>>
    /\ parsed = ParseFail
    /\ stamp = -1
    /\ outcome = NoOutcome
    /\ detector = FALSE
    /\ fetches = 0
    /\ invocations = 0

\* the clock advances
Tick ==
    /\ now < MaxClock
    /\ now' = now + 1
    /\ UNCHANGED <<pc, API_KEY, image_source, image, reply, response_text, parsed,
                   stamp, outcome, detector, fetches, invocations>>

\* detect_municipal_issue(image_url) is called
Call ==
    /\ pc = "idle"
    /\ \E src \in ImageSources, key \in ApiKeys :
        /\ image_source' = src
        /\ API_KEY' = key
    /\ pc' = "check_key"
    /\ image' = JNull
    /\ reply' = <<>>
    /\ response_text' = <<>>
    /\ parsed' = ParseFail
    /\ stamp' = -1
    /\ outcome' = NoOutcome
    /\ detector' = FALSE
    /\ fetches' = 0
    /\ invocations' = 0
    /\ UNCHANGED now

\* the call hands over outcome o
Finish(o) ==
    /\ outcome' = o
    /\ pc' = "done"

\* if not API_KEY: return "Error: Google Gemini API key not found."
CheckKey ==
    /\ pc = "check_key"
    /\ IF Falsy(API_KEY)
       THEN Finish(DetectTry(Return(JStr(KEY_ERROR_MESSAGE))))
       ELSE pc' = "construct" /\ UNCHANGED outcome
    /\ UNCHANGED <<now, API_KEY, image_source, image, reply, response_text, parsed,
                   stamp, detector, fetches, invocations>>

\* detector = MunicipalIssueDetector(API_KEY)
Construct ==
    /\ pc = "construct"
    /\ \/ /\ detector' = TRUE
          /\ pc' = "load"
          /\ UNCHANGED outcome
       \/ /\ Finish(DetectTry(Raise(CONFIGURE_ERROR)))
          /\ UNCHANGED detector
    /\ UNCHANGED <<now, API_KEY, image_source, image, reply, response_text, parsed,
                   stamp, fetches, invocations>>

\* what the first statements of analyze_image do with image_source: the
\* fetches issued and either the image in RGB mode or the exception raised
LoadOutcomes(src) ==
    IF src.t = "str" THEN
        IF StartsWith(src.s, HTTP_PREFIX) \/ StartsWith(src.s, HTTPS_PREFIX)
        THEN {[fetched |-> 1, out |-> o] :
                o \in {Return(PilImage(RGB)), Raise(CONNECTION_ERROR), Raise(HTTP_ERROR),
                       Raise(UNIDENTIFIED_IMAGE), Raise(OS_ERROR)}}
        ELSE {[fetched |-> 0, out |-> o] :
                o \in {Return(PilImage(RGB)), Raise(FILE_NOT_FOUND),
                       Raise(UNIDENTIFIED_IMAGE), Raise(OS_ERROR)}}
    ELSE IF src.t = "image" THEN
        {[fetched |-> 0, out |-> o] :
            o \in {Return(PilImage(RGB))} \cup (IF src.s # RGB THEN {Raise(OS_ERROR)} ELSE {})}
    ELSE {[fetched |-> 0, out |-> Raise(SOURCE_ERROR)]}

\* the image is loaded and converted to RGB
LoadImage ==
    /\ pc = "load"
    /\ \E l \in LoadOutcomes(image_source) :
        /\ fetches' = fetches + l.fetched
        /\ IF l.out.raised
           THEN Finish(DetectTry(AnalyzeTry(l.out))) /\ UNCHANGED image
           ELSE image' = l.out.val /\ pc' = "generate" /\ UNCHANGED outcome
    /\ UNCHANGED <<now, API_KEY, image_source, reply, response_text, parsed, stamp,
                   detector, invocations>>

\* response = self.model.generate_content([prompt, image]) and response.text
Generate ==
    /\ pc = "generate"
    /\ invocations' = invocations + 1
    /\ \/ \E text \in Replies :
            /\ reply' = text
            /\ pc' = "parse"
            /\ UNCHANGED outcome
       \/ \E e \in {MODEL_ERROR, BLOCKED_ERROR} :
            /\ Finish(DetectTry(AnalyzeTry(Raise(e))))
            /\ UNCHANGED reply
    /\ UNCHANGED <<now, API_KEY, image_source, image, response_text, parsed, stamp,
                   detector, fetches>>

\* the reply is turned into the result of the call
ParseReply ==
    /\ pc = "parse"
    /\ stamp' = now
    /\ IF IsNonCivic(Strip(reply))
       THEN response_text' = Strip(reply) /\ UNCHANGED parsed
       ELSE response_text' = FenceStripped(reply) /\ parsed' = JsonLoads(FenceStripped(reply))
    /\ Finish(DetectTry(AnalyzeTry(ParseResponse(reply, now))))
    /\ UNCHANGED <<now, API_KEY, image_source, image, reply, detector, fetches, invocations>>

\* the caller takes the result
Done ==
    /\ pc = "done"
    /\ pc' = "idle"
    /\ UNCHANGED <<now, API_KEY, image_source, image, reply, response_text, parsed,
                   stamp, outcome, detector, fetches, invocations>>

Next == Tick \/ Call \/ CheckKey \/ Construct \/ LoadImage \/ Generate \/ ParseReply \/ Done

Spec == Init /\ [][Next]_vars

(***************************************************************************)
(* Vocabulary of the properties.                                           *)
(***************************************************************************)
\* the call is over and its reply went through the inner try statement
Handled == pc = "done" /\ stamp >= 0

\* the value handed to the caller
Result == outcome.val

\* the error value of detect_municipal_issue
IsErrorValue(v) ==
    /\ v.t = "dict"
    /\ DOMAIN v.d = {"error", "message"}
    /\ v.d["message"] = JStr(FAILED_MESSAGE)

\* an IssueReport
IsReport(v) == v.t = "dict" /\ ~IsErrorValue(v)

\* the stripped reply names the sentinel
NamesSentinel == Contains(Strip(reply), NON_CIVIC_ISSUE)

\* the lower-cased reply holds one of the five phrases
NamesPhrase ==
    \E phrase \in {NO_MUNICIPAL, NO_CIVIC, NOT_A_MUNICIPAL, PERSONAL_ITEM, NON_CIVIC} :
        Contains(Lower(reply), phrase)

\* the dict the reply parsed to
ParsedDict == parsed.ok /\ parsed.val.t = "dict"

\* key k of dict d holds the str s
Holds(d, k, s) == k \in DOMAIN d /\ d[k] = JStr(s)

(***************************************************************************)
(* C1: a reply without the sentinel that fails to parse and holds none of  *)
(* the negative phrases yields a Fallback Record (department BUILDING,     *)
(* priority MEDIUM, confidence_score 0.5, status PENDING, the fallback     *)
(* note), never an error result.                                           *)
(***************************************************************************)
C1_FallbackRecord ==
    (Handled /\ ~NamesSentinel /\ ~parsed.ok /\ ~NamesPhrase) =>
        /\ IsReport(Result)
        /\ Holds(Result.d, "department", BUILDING)
        /\ Holds(Result.d, "priority", MEDIUM)
        /\ "confidence_score" \in DOMAIN Result.d
        /\ Result.d["confidence_score"] = JNum(HALF)
        /\ Holds(Result.d, "status", PENDING)
        /\ Holds(Result.d, "note", FALLBACK_NOTE)

(***************************************************************************)
(* C2: a reply whose stripped text is or contains NON_CIVIC_ISSUE yields   *)
(* the fixed non-issue message, also when the reply is well-formed JSON.   *)
(***************************************************************************)
C2_SentinelWins ==
    (Handled /\ (Strip(reply) = NON_CIVIC_ISSUE \/ NamesSentinel)) =>
        outcome = Return(JStr(NO_ISSUE_MESSAGE))

\* a well-formed JSON object naming the sentinel got the non-issue message
C2_Witness ==
    /\ Handled
    /\ NamesSentinel
    /\ Strip(reply) # NON_CIVIC_ISSUE
    /\ JsonLoads(FenceStripped(reply)).ok
    /\ JsonLoads(FenceStripped(reply)).val.t = "dict"
    /\ Result = JStr(NO_ISSUE_MESSAGE)

(***************************************************************************)
(* C3: every returned report has its department in the department set and *)
(* its priority among the four levels; a parsed department or priority of *)
(* its set is kept, any other or missing one becomes BUILDING, MEDIUM.     *)
(***************************************************************************)
C3_ClosedEnums ==
    (Handled /\ IsReport(Result)) =>
        /\ "department" \in DOMAIN Result.d
        /\ "priority" \in DOMAIN Result.d
        /\ \E k \in valid_departments : Result.d["department"] = JStr(k)
        /\ \E k \in valid_priorities : Result.d["priority"] = JStr(k)
        /\ ParsedDict =>
            /\ Result.d["department"] =
                 IF /\ "department" \in DOMAIN parsed.val.d
                    /\ \E k \in valid_departments : parsed.val.d["department"] = JStr(k)
                 THEN parsed.val.d["department"]
                 ELSE JStr(BUILDING)
            /\ Result.d["priority"] =
                 IF /\ "priority" \in DOMAIN parsed.val.d
                    /\ \E k \in valid_priorities : parsed.val.d["priority"] = JStr(k)
                 THEN parsed.val.d["priority"]
                 ELSE JStr(MEDIUM)

\* an unrecognized department and a missing priority were replaced
C3_Witness ==
    /\ Handled
    /\ ParsedDict
    /\ Holds(parsed.val.d, "department", BOGUS)
    /\ "priority" \notin DOMAIN parsed.val.d
    /\ IsReport(Result)
    /\ Holds(Result.d, "department", BUILDING)
    /\ Holds(Result.d, "priority", MEDIUM)

(***************************************************************************)
(* C4: every reply that json.loads accepts, whatever it parses to, yields  *)
(* a report with status PENDING and never an error message.                *)
(***************************************************************************)
C4_ParsedYieldsReport ==
    (Handled /\ parsed.ok) =>
        /\ IsReport(Result)
        /\ Holds(Result.d, "status", PENDING)

(***************************************************************************)
(* C5: validation sets timestamp to the current time and status to         *)
(* PENDING over whatever the model supplied, and leaves every key other    *)
(* than department, priority, description, timestamp, status as supplied.  *)
(***************************************************************************)
TouchedKeys == {"department", "priority", "description", "timestamp", "status"}

C5_StampStatusFrame ==
    (Handled /\ ParsedDict) =>
        /\ Result.t = "dict"
        /\ Holds(Result.d, "timestamp", IsoFormat(stamp))
        /\ Holds(Result.d, "status", PENDING)
        /\ DOMAIN Result.d = (DOMAIN parsed.val.d) \cup TouchedKeys
        /\ \A k \in (DOMAIN parsed.val.d) \ TouchedKeys : Result.d[k] = parsed.val.d[k]

\* a supplied timestamp and status were overwritten, the details kept
C5_Witness ==
    /\ Handled
    /\ ParsedDict
    /\ Holds(parsed.val.d, "timestamp", OLD_STAMP)
    /\ Holds(parsed.val.d, "status", RESOLVED)
    /\ Holds(parsed.val.d, "location_details", MAIN_STREET)
    /\ stamp > 0
    /\ Holds(Result.d, "timestamp", IsoFormat(stamp))
    /\ Holds(Result.d, "status", PENDING)
    /\ Holds(Result.d, "location_details", MAIN_STREET)

(***************************************************************************)
(* C6: a reply that fails to parse and whose original text, lower-cased,   *)
(* holds one of the five phrases yields the fixed non-issue message.       *)
(***************************************************************************)
C6_NegativePhrase ==
    (Handled /\ ~NamesSentinel /\ ~parsed.ok /\ NamesPhrase) =>
        outcome = Return(JStr(NO_ISSUE_MESSAGE))

\* a phrase written with capitals was recognised
C6_Witness ==
    /\ Handled
    /\ Contains(reply, CAPITAL_TEXT)
    /\ ~parsed.ok
    /\ Result = JStr(NO_ISSUE_MESSAGE)

(***************************************************************************)
(* C7: every failure of image loading or of the model invocation becomes   *)
(* an error-message result inside analyze_image, and every call of         *)
(* detect_municipal_issue hands a value, never an exception, to its caller.*)
(***************************************************************************)
C7_NoExceptionEscapes ==
    pc = "done" =>
        /\ ~outcome.raised
        /\ Result.t \in {"str", "dict"}
        /\ (detector /\ stamp = -1) =>
            /\ Result.t = "str"
            /\ StartsWith(Result.s, ANALYZE_ERROR_PREFIX)

\* a fetch that failed became the error message
C7_Witness ==
    /\ pc = "done"
    /\ detector
    /\ fetches = 1
    /\ image = JNull
    /\ Result = JStr(ANALYZE_ERROR_PREFIX \o HTTP_ERROR)

(***************************************************************************)
(* C8: with the API key unset or empty the call returns the key error      *)
(* string, the detector is never constructed, no image is fetched and the  *)
(* model is never invoked.                                                 *)
(***************************************************************************)
C8_KeyCheckedFirst ==
    (pc \notin {"idle", "check_key"} /\ (API_KEY = JNull \/ API_KEY = JStr(<<>>))) =>
        /\ pc = "done"
        /\ outcome = Return(JStr(KEY_ERROR_MESSAGE))
        /\ ~detector
        /\ image = JNull
        /\ fetches = 0
        /\ invocations = 0

\* a call with an empty key ended with the key error
C8_Witness ==
    /\ pc = "done"
    /\ API_KEY = JStr(<<>>)
    /\ JStr(HTTP_PREFIX \o <<"a">>) = image_source
    /\ Result = JStr(KEY_ERROR_MESSAGE)

(***************************************************************************)
(* C9 as stated: every returned report contains description,               *)
(* location_details, recommended_action and confidence_score.              *)
(***************************************************************************)
DetailKeys == {"location_details", "recommended_action", "confidence_score"}

C9_DetailsDefaulted ==
    (Handled /\ IsReport(Result)) => ({"description"} \cup DetailKeys) \subseteq DOMAIN Result.d

(***************************************************************************)
(* C9 as amended: every returned report contains description, holding the *)
(* model's value when supplied and UNKNOWN when omitted;                   *)
(* location_details, recommended_action and confidence_score hold the      *)
(* model's value when supplied and are absent when omitted.                *)
(***************************************************************************)
C9_DescriptionDefaulted ==
    (Handled /\ IsReport(Result)) =>
        /\ ParsedDict
        /\ "description" \in DOMAIN Result.d
        /\ Result.d["description"] =
             IF "description" \in DOMAIN parsed.val.d
             THEN parsed.val.d["description"]
             ELSE JStr(UNKNOWN)
        /\ \A k \in DetailKeys :
            /\ k \in DOMAIN Result.d <=> k \in DOMAIN parsed.val.d
            /\ k \in DOMAIN parsed.val.d => Result.d[k] = parsed.val.d[k]

\* a report without the detail keys, its description defaulted
C9_Witness ==
    /\ Handled
    /\ ParsedDict
    /\ DOMAIN parsed.val.d = {"department"}
    /\ IsReport(Result)
    /\ Holds(Result.d, "description", UNKNOWN)
    /\ DetailKeys \cap DOMAIN Result.d = {}

(***************************************************************************)
(* C10: the leading 7-character marker is stripped if the trimmed reply    *)
(* starts with it and the trailing 3-character marker if the trimmed reply *)
(* ends with it, each whatever the other does; a JSON object in a fenced   *)
(* block yields the report of the bare object.                             *)
(***************************************************************************)
C10_FenceStripping ==
    (Handled /\ ~NamesSentinel) =>
        LET s    == Strip(reply)
            from == IF StartsWith(s, JSON_FENCE) THEN 8 ELSE 1
            to   == IF EndsWith(s, FENCE) THEN Len(s) - 3 ELSE Len(s)
            body == SubSeq(s, 9, Len(s) - 4)
        IN  /\ response_text = SubSeq(s, from, to)
            /\ (body \in ObjectBodies /\ s = Fenced(body)) =>
                /\ IsReport(Result)
                /\ Result = ParseResponse(body, stamp).val

\* a fenced object was reported as the bare object is
C10_Witness ==
    /\ Handled
    /\ Strip(reply) = Fenced(Object(<<Member(K_department, Quote(FIRE)),
                                      Member(K_priority, Quote(CRITICAL)),
                                      Member(K_description, Quote(<<"x">>))>>))
    /\ reply # Strip(reply)
    /\ IsReport(Result)
    /\ Holds(Result.d, "department", FIRE)
    /\ Holds(Result.d, "priority", CRITICAL)
    /\ Holds(Result.d, "description", <<"x">>)
=============================================================================
